---- MODULE Spec2Model ----
(***************************************************************************)
(* flagconf: environment and config-file sources for a flag.FlagSet.       *)
(*                                                                         *)
(* The repository carries the package in two revisions:                    *)
(*   src/unnamed/part_000  ("part_000")   value expansion, "true" for a    *)
(*                                        bare key, unknown keys ignored   *)
(*   src/flagconf.go       ("flagconf.go") no expansion, lines cut at the  *)
(*                                        first space, unknown keys fatal  *)
(* A build links exactly one of them; rev says which.  The copy of the     *)
(* package appended to src/flagconf_test.go (lines 64-215) differs from    *)
(* src/flagconf.go only in mimicFlagSetError handing the error back as a   *)
(* result, which the callers assign to err: the same behaviour.            *)
(*                                                                         *)
(* A Go string is a sequence of one-character strings; NUL stands for the  *)
(* byte 0x00.                                                              *)
(***************************************************************************)
EXTENDS Integers, Sequences, FiniteSets, TLC

VARIABLES
    rev,            \* which revision of the package is linked
    flName,         \* fl.Name()
    emptyPrefix,    \* part_000: ReadEnvPrefix was replaced by one returning ""
    errorHandling,  \* fl.ErrorHandling()
    hasUsage,       \* fl.Usage != nil
    environ,        \* os.Environ(): a list of "K=V" strings
    fs,             \* the file system: path -> file
    actual,         \* the names fl.Visit reports (set by flag.Parse)
    value,          \* the value each flag holds
    output,         \* what was written to fl.Output()
    status,         \* "running", "exited2", "panicked"
    ret,            \* what the last call returned
    history,        \* the calls made so far
    pass,           \* the record of the last ParseEnvSet / ParseConfigSet call
    arg,            \* the input of a function applied on its own
    res             \* its result

vars == <<rev, flName, emptyPrefix, errorHandling, hasUsage, environ, fs,
          actual, value, output, status, ret, history, pass, arg, res>>

NUL == "NUL"

(***************************************************************************)
(* package strings                                                         *)
(***************************************************************************)
RECURSIVE Concat(_)
Concat(ss) == IF ss = <<>> THEN <<>> ELSE Head(ss) \o Concat(Tail(ss))

Drop(s, n) == SubSeq(s, n + 1, Len(s))

Take(s, n) == SubSeq(s, 1, n)

HasPrefix(s, p) == Len(p) <= Len(s) /\ Take(s, Len(p)) = p

\* strings.ReplaceAll with a non-empty old: leftmost, non-overlapping
RECURSIVE ReplaceAll(_, _, _)
ReplaceAll(s, old, new) ==
    IF s = <<>> THEN <<>>
    ELSE IF HasPrefix(s, old) THEN new \o ReplaceAll(Drop(s, Len(old)), old, new)
    ELSE <<Head(s)>> \o ReplaceAll(Tail(s), old, new)

\* strings.Index for a one-character sep: 0 when absent, else the 1-based place
RECURSIVE IndexOf(_, _)
IndexOf(s, cs) ==
    IF s = <<>> THEN 0
    ELSE IF Head(s) \in cs THEN 1
    ELSE LET i == IndexOf(Tail(s), cs) IN IF i = 0 THEN 0 ELSE i + 1

\* strings.Split with a one-character sep: Split("", sep) is [""]
RECURSIVE Split(_, _)
Split(s, sep) ==
    LET i == IndexOf(s, {sep}) IN
    IF i = 0 THEN <<s>>
    ELSE <<Take(s, i - 1)>> \o Split(Drop(s, i), sep)

\* strings.Cut with a one-character sep: <<before, after, found>>
Cut(s, sep) ==
    LET i == IndexOf(s, {sep}) IN
    IF i = 0 THEN <<s, <<>>, FALSE>>
    ELSE <<Take(s, i - 1), Drop(s, i), TRUE>>

Lower == <<"a", "b", "c", "d", "e", "f", "g", "h", "i", "j", "k", "l", "m",
           "n", "o", "p", "q", "r", "s", "t", "u", "v", "w", "x", "y", "z">>

Upper == <<"A", "B", "C", "D", "E", "F", "G", "H", "I", "J", "K", "L", "M",
           "N", "O", "P", "Q", "R", "S", "T", "U", "V", "W", "X", "Y", "Z">>

ToUpperChar(c) ==
    IF \E i \in 1..Len(Lower) : Lower[i] = c
    THEN Upper[CHOOSE i \in 1..Len(Lower) : Lower[i] = c]
    ELSE c

ToUpper(s) == [i \in 1..Len(s) |-> ToUpperChar(s[i])]

\* unicode.IsSpace, over the characters of the model
Space == {" ", "\t", "\r", "\n"}

RECURSIVE TrimLeft(_)
TrimLeft(s) == IF s # <<>> /\ Head(s) \in Space THEN TrimLeft(Tail(s)) ELSE s

RECURSIVE TrimRight(_)
TrimRight(s) ==
    IF s # <<>> /\ s[Len(s)] \in Space THEN TrimRight(Take(s, Len(s) - 1)) ELSE s

TrimSpace(s) == TrimRight(TrimLeft(s))

(***************************************************************************)
(* Go maps: a function on the keys present; a missing key reads as the     *)
(* zero value, the empty string or the nil slice, both <<>>.               *)
(***************************************************************************)
Lookup(m, k) == IF k \in DOMAIN m THEN m[k] ELSE <<>>

MapSet(m, k, v) == [x \in DOMAIN m \cup {k} |-> IF x = k THEN v ELSE m[x]]

EmptyMap == [x \in {} |-> <<>>]

\* genEnvMap: entries without "=" are dropped, the last entry of a key wins
RECURSIVE genEnvMapFrom(_, _)
genEnvMapFrom(env, envMap) ==
    IF env = <<>> THEN envMap
    ELSE LET c == Cut(Head(env), "=") IN
         genEnvMapFrom(Tail(env), IF c[3] THEN MapSet(envMap, c[1], c[2]) ELSE envMap)

genEnvMap(env) == genEnvMapFrom(env, EmptyMap)

(***************************************************************************)
(* os.Expand, as the expand closures call it: one pass from left to right, *)
(* the substituted text is never read again.                               *)
(***************************************************************************)
Digits == {"0", "1", "2"}

isShellSpecialVar(c) == c \in {"*", "#", "$", "@", "!", "?", "-"} \cup Digits

isAlphaNum(c) ==
    \/ c = "_"
    \/ c \in Digits
    \/ \E i \in 1..Len(Lower) : c = Lower[i] \/ c = Upper[i]

RECURSIVE AlphaNumRun(_)
AlphaNumRun(s) ==
    IF s # <<>> /\ isAlphaNum(Head(s)) THEN 1 + AlphaNumRun(Tail(s)) ELSE 0

\* <<name, width>> of the reference that starts s, the text after a "$"
getShellName(s) ==
    IF Head(s) = "{"
    THEN IF Len(s) > 2 /\ isShellSpecialVar(s[2]) /\ s[3] = "}"
         THEN <<SubSeq(s, 2, 2), 3>>
         ELSE LET i == IndexOf(Tail(s), {"}"}) IN
              IF i = 0 THEN <<<<>>, 1>>
              ELSE IF i = 1 THEN <<<<>>, 2>>
              ELSE <<SubSeq(s, 2, i), i + 1>>
    ELSE IF isShellSpecialVar(Head(s)) THEN <<Take(s, 1), 1>>
    ELSE LET n == AlphaNumRun(s) IN <<Take(s, n), n>>

RECURSIVE Expand(_, _)
Expand(s, envMap) ==
    IF s = <<>> THEN <<>>
    ELSE IF Head(s) = "$" /\ Len(s) > 1
    THEN LET nw == getShellName(Tail(s))
             piece == IF nw[1] = <<>> /\ nw[2] > 0 THEN <<>>
                      ELSE IF nw[1] = <<>> THEN <<"$">>
                      ELSE Lookup(envMap, nw[1])
         IN piece \o Expand(Drop(s, 1 + nw[2]), envMap)
    ELSE <<Head(s)>> \o Expand(Tail(s), envMap)

(***************************************************************************)
(* filepath.Base and the environment key                                   *)
(***************************************************************************)
RECURSIVE StripSlashes(_)
StripSlashes(p) ==
    IF p # <<>> /\ p[Len(p)] = "/" THEN StripSlashes(Take(p, Len(p) - 1)) ELSE p

RECURSIVE LastElement(_)
LastElement(p) ==
    LET i == IndexOf(p, {"/"}) IN IF i = 0 THEN p ELSE LastElement(Drop(p, i))

Base(path) ==
    IF path = <<>> THEN <<".">>
    ELSE LET e == LastElement(StripSlashes(path)) IN IF e = <<>> THEN <<"/">> ELSE e

\* part_000: a variable holding a function, replaceable by the program
ReadEnvPrefix(name, replaced) == IF replaced THEN <<>> ELSE Base(name)

envKeyForFlag_Joined(prefix, name) ==
    ToUpper(ReplaceAll(prefix, <<"-">>, <<"_">>) \o <<"_">>
            \o ReplaceAll(name, <<"-">>, <<"_">>))

\* part_000
envKeyForFlag(prefix, name) ==
    LET n == ToUpper(ReplaceAll(name, <<"-">>, <<"_">>)) IN
    IF prefix = <<>> THEN n
    ELSE ToUpper(ReplaceAll(prefix, <<"-">>, <<"_">>)) \o <<"_">> \o n

\* flagconf.go: strings.Join of prefix and name, whatever the prefix
envKeyForFlag0(prefix, name) ==
    ToUpper(ReplaceAll(prefix, <<"-">>, <<"_">>) \o <<"_">>
            \o ReplaceAll(name, <<"-">>, <<"_">>))

(***************************************************************************)
(* splitEscape, called with sep "," and esc "\"                            *)
(***************************************************************************)
Unescape(tokens, sep) == [i \in 1..Len(tokens) |-> ReplaceAll(tokens[i], <<NUL>>, <<sep>>)]

\* flagconf.go: no test for the empty string
splitEscape0(str, sep, esc) ==
    Unescape(Split(ReplaceAll(str, <<esc, sep>>, <<NUL>>), sep), sep)

splitEscape_EmptyToken(str, sep, esc) ==
    Unescape(Split(ReplaceAll(str, <<esc, sep>>, <<NUL>>), sep), sep)

\* part_000
splitEscape(str, sep, esc) ==
    IF str = <<>> THEN <<>>
    ELSE Unescape(Split(ReplaceAll(str, <<esc, sep>>, <<NUL>>), sep), sep)

(***************************************************************************)
(* The registry: the flags the test program registers, in the order        *)
(* VisitAll and Visit walk them (sorted by name), and their setters.       *)
(***************************************************************************)
arr == <<"a", "r", "r">>

str == <<"s", "t", "r">>

willErr == <<"w", "i", "l", "l", "-", "e", "r", "r">>

\* a second flagArray, visited after will-err
zs == <<"z", "s">>

Formal == <<arr, str, willErr, zs>>

FlagNames == {Formal[i] : i \in 1..Len(Formal)}

IsArray(f) == f \in {arr, zs}

\* the zero values: flag.String("str", "", ""), var fa flagArray, var we willErr
ZeroValue == [f \in FlagNames |-> <<>>]

\* f.Value.Set(v) on the value val: <<accepted, the value afterwards>>
Set(f, v, val) ==
    IF f = willErr THEN <<FALSE, val>>
    ELSE IF IsArray(f) THEN <<TRUE, Append(val, v)>>
    ELSE <<TRUE, v>>

(***************************************************************************)
(* Errors.  An error value is a record; Nil is the nil error.              *)
(***************************************************************************)
Nil == [kind |-> "nil", key |-> <<>>, errs |-> <<>>]

NoReturn == [kind |-> "no return", key |-> <<>>, errs |-> <<>>]

NilSet == [flag |-> <<>>, val |-> <<>>]

\* what willErr.Set returns; flag and val tell the calls apart
SetError(f, v) == [flag |-> f, val |-> v]

Errorf(kind, key) == [kind |-> kind, key |-> key, errs |-> <<>>]

RECURSIVE NonNil(_)
NonNil(errs) ==
    IF errs = <<>> THEN <<>>
    ELSE IF Head(errs) = NilSet THEN NonNil(Tail(errs))
    ELSE <<Head(errs)>> \o NonNil(Tail(errs))

\* errors.Join: nil values are dropped; nil when nothing is left
Join(errs) ==
    IF NonNil(errs) = <<>> THEN Nil
    ELSE [kind |-> "join", key |-> <<>>, errs |-> NonNil(errs)]

\* fl.Visit walks the flags of fl.actual: those flag.Parse (fl.Set) has set.
\* f.Value.Set, which the passes call, does not add to it.
getSetFlags_None == {}

getSetFlags == actual

getAllFlags == FlagNames

\* the report of a call that ends with err: what is done, in order
mimicFlagSetError_UsageFirst(err) ==
    IF err = Nil THEN <<>>
    ELSE (IF hasUsage THEN <<"usage">> ELSE <<>>) \o <<"write">>
         \o (IF errorHandling = "ExitOnError" THEN <<"exit(2)">>
             ELSE IF errorHandling = "PanicOnError" THEN <<"panic">>
             ELSE <<>>)

mimicFlagSetError(err) ==
    IF err = Nil THEN <<>>
    ELSE <<"write">>
         \o (IF hasUsage THEN <<"usage">> ELSE <<>>)
         \o (IF errorHandling = "ExitOnError" THEN <<"exit(2)">>
             ELSE IF errorHandling = "PanicOnError" THEN <<"panic">>
             ELSE <<>>)

Has(seq, x) == \E i \in 1..Len(seq) : seq[i] = x

\* the end of a call whose deferred function reported `report` for err
Return(err, report) ==
    /\ output' = IF Has(report, "write") THEN Append(output, err) ELSE output
    /\ status' = IF Has(report, "exit(2)") THEN "exited2"
                 ELSE IF Has(report, "panic") THEN "panicked"
                 ELSE "running"
    /\ ret' = IF Has(report, "exit(2)") \/ Has(report, "panic") THEN NoReturn ELSE err

(***************************************************************************)
(* The walk over the flags.  A walk carries the flag values, the setter    *)
(* calls made, flagErrs, and the environment keys looked up.               *)
(***************************************************************************)
Walk0 == [value |-> value, calls |-> <<>>, errs |-> <<>>, lookups |-> <<>>]

Called(w, f, v, r) ==
    [w EXCEPT !.value[f] = r[2],
              !.calls = Append(@, [flag |-> f, val |-> v, ok |-> r[1]])]

\* SetEach leaving the loop at the first value the setter rejects
RECURSIVE SetEach_StopAtError(_, _, _, _)
SetEach_StopAtError(f, vs, envMap, w) ==
    IF vs = <<>> THEN w
    ELSE LET v == Expand(Head(vs), envMap)
             r == Set(f, v, w.value[f])
             c == Called(w, f, v, r)
         IN IF r[1] THEN SetEach_StopAtError(f, Tail(vs), envMap, c)
            ELSE [c EXCEPT !.errs = Append(@, SetError(f, v))]

\* part_000: v = expand(v); if err := f.Value.Set(v); err != nil { append }
RECURSIVE SetEach(_, _, _, _)
SetEach(f, vs, envMap, w) ==
    IF vs = <<>> THEN w
    ELSE LET v == Expand(Head(vs), envMap)
             r == Set(f, v, w.value[f])
             c == Called(w, f, v, r)
         IN SetEach(f, Tail(vs), envMap,
                    IF r[1] THEN c ELSE [c EXCEPT !.errs = Append(@, SetError(f, v))])

\* flagconf.go: flagErrs = append(flagErrs, f.Value.Set(v))
RECURSIVE SetEach0(_, _, _)
SetEach0(f, vs, w) ==
    IF vs = <<>> THEN w
    ELSE LET v == Head(vs)
             r == Set(f, v, w.value[f])
             c == Called(w, f, v, r)
         IN SetEach0(f, Tail(vs),
                     [c EXCEPT !.errs = Append(@, IF r[1] THEN NilSet ELSE SetError(f, v))])

Looked(w, f, prefix, key, raw) ==
    [w EXCEPT !.lookups = Append(@, [flag |-> f, prefix |-> prefix, key |-> key, raw |-> raw])]

\* part_000, the VisitAll of ParseEnvSet, from the i-th flag on
RECURSIVE VisitEnv(_, _, _, _, _)
VisitEnv(i, setFlags, prefix, envMap, w) ==
    IF i > Len(Formal) THEN w
    ELSE LET f == Formal[i]
             key == envKeyForFlag(prefix, f)
             raw == Lookup(envMap, key)
         IN VisitEnv(i + 1, setFlags, prefix, envMap,
                IF f \in setFlags THEN w
                ELSE SetEach(f, splitEscape(raw, ",", "\\"), envMap,
                             Looked(w, f, prefix, key, raw)))

\* flagconf.go, the VisitAll of ParseEnvSet
RECURSIVE VisitEnv0(_, _, _, _, _)
VisitEnv0(i, setFlags, prefix, envMap, w) ==
    IF i > Len(Formal) THEN w
    ELSE LET f == Formal[i]
             key == envKeyForFlag0(prefix, f)
             raw == Lookup(envMap, key)
         IN VisitEnv0(i + 1, setFlags, prefix, envMap,
                IF f \in setFlags THEN w
                ELSE IF raw # <<>>
                THEN SetEach0(f, splitEscape0(raw, ",", "\\"), Looked(w, f, prefix, key, raw))
                ELSE Looked(w, f, prefix, key, raw))

\* part_000, the VisitAll of ParseConfigSet
RECURSIVE VisitConfig(_, _, _, _, _)
VisitConfig(i, setFlags, config, envMap, w) ==
    IF i > Len(Formal) THEN w
    ELSE LET f == Formal[i] IN
         VisitConfig(i + 1, setFlags, config, envMap,
                IF f \in setFlags THEN w ELSE SetEach(f, Lookup(config, f), envMap, w))

\* flagconf.go, the VisitAll of ParseConfigSet
RECURSIVE VisitConfig0(_, _, _, _)
VisitConfig0(i, setFlags, config, w) ==
    IF i > Len(Formal) THEN w
    ELSE LET f == Formal[i] IN
         VisitConfig0(i + 1, setFlags, config,
                IF f \in setFlags THEN w ELSE SetEach0(f, Lookup(config, f), w))

(***************************************************************************)
(* The scan of the config file.  A file on disk is a record: whether it    *)
(* opens, the lines bufio.Scanner hands out, and whether the read then     *)
(* fails (a directory fails before its first line).                        *)
(***************************************************************************)
MapAppend(config, k, v) == MapSet(config, k, Append(Lookup(config, k), v))

\* part_000: the table of the lines
RECURSIVE scan(_, _)
scan(lines, config) ==
    IF lines = <<>> THEN config
    ELSE LET line == TrimSpace(Head(lines))
             idx == IndexOf(line, {"\t", " "})
         IN IF line = <<>> \/ HasPrefix(line, <<"#">>) THEN scan(Tail(lines), config)
            ELSE IF idx = 0 THEN scan(Tail(lines), MapAppend(config, line, <<"t", "r", "u", "e">>))
            ELSE scan(Tail(lines),
                      MapAppend(config, Take(line, idx - 1), TrimSpace(Drop(line, idx - 1))))

\* flagconf.go: <<error, table>>; an unknown key ends the scan with an error
RECURSIVE scan0(_, _)
scan0(lines, config) ==
    IF lines = <<>> THEN <<Nil, config>>
    ELSE LET c == Cut(TrimSpace(Head(lines)), " ")
             k == c[1]
             v == TrimSpace(c[2])
         IN IF ~c[3] THEN scan0(Tail(lines), config)
            ELSE IF HasPrefix(k, <<"#">>) THEN scan0(Tail(lines), config)
            ELSE IF k \notin getAllFlags THEN <<Errorf("unknown config option", k), config>>
            ELSE IF v # <<>> THEN scan0(Tail(lines), MapAppend(config, k, v))
            ELSE scan0(Tail(lines), config)

(***************************************************************************)
(* The calls                                                               *)
(***************************************************************************)
MaxCalls == 3

NoPass == [op |-> "none", path |-> <<>>, opened |-> <<>>, setBefore |-> {}, pre |-> ZeroValue,
           calls |-> <<>>, lookups |-> <<>>, config |-> EmptyMap,
           sc |-> "unopened", err |-> Nil, report |-> <<>>, out |-> <<>>]

Unused == UNCHANGED <<arg, res>>

Registry == UNCHANGED <<rev, flName, emptyPrefix, errorHandling, hasUsage, environ, fs>>

CanCall == status = "running" /\ Len(history) < MaxCalls

\* fl.Set for each name=value of the command line: the value is set and the
\* name enters fl.actual
RECURSIVE ParseArgs(_, _)
ParseArgs(args, val) ==
    IF args = <<>> THEN val
    ELSE LET f == Head(args)[1] IN
         ParseArgs(Tail(args), [val EXCEPT ![f] = Set(f, Head(args)[2], val[f])[2]])

CommandLines ==
    { <<>>,
      << <<str, <<"o", "t", "h", "e", "r">>>> >>,
      << <<arr, <<"o", "n", "e">>>>, <<arr, <<"t", "w", "o">>>> >>,
      << <<str, <<"o", "t", "h", "e", "r">>>>, <<arr, <<"o", "n", "e">>>> >> }

\* flag.Parse() with the command line args
FlagParse(args) ==
    /\ CanCall
    /\ history = <<>>
    /\ value' = ParseArgs(args, value)
    /\ actual' = actual \cup {args[i][1] : i \in 1..Len(args)}
    /\ ret' = Nil
    /\ history' = Append(history, "parse")
    /\ UNCHANGED <<output, status, pass>>
    /\ Registry /\ Unused

\* the end of ParseEnvSet and ParseConfigSet: the deferred report of err
\* sc tells how the scanner ended:
\* "unopened", "eof", "failed" (sc.Err() is not nil) or "left" (return in the loop)
Finish(op, path, opened, w, sc, config, err, deferred) ==
    LET report == IF deferred THEN mimicFlagSetError(err) ELSE <<>> IN
    /\ value' = w.value
    /\ pass' = [op |-> op, path |-> path, opened |-> opened, setBefore |-> actual, pre |-> value,
                calls |-> w.calls, lookups |-> w.lookups, config |-> config,
                sc |-> sc, err |-> err, report |-> report, out |-> output]
    /\ Return(err, report)
    /\ history' = Append(history, op)
    /\ UNCHANGED actual
    /\ Registry /\ Unused

\* part_000
ParseEnvSet ==
    /\ CanCall
    /\ rev = "part_000"
    /\ LET prefix == ReadEnvPrefix(flName, emptyPrefix)
           envMap == genEnvMap(environ)
           w == VisitEnv(1, getSetFlags, prefix, envMap, Walk0)
       IN Finish("env", <<>>, <<>>, w, "unopened", EmptyMap, Join(w.errs), TRUE)

\* flagconf.go
ParseEnvSet0 ==
    /\ CanCall
    /\ rev = "flagconf.go"
    /\ LET prefix == Base(flName)
           envMap == genEnvMap(environ)
           w == VisitEnv0(1, getSetFlags, prefix, envMap, Walk0)
       IN Finish("env", <<>>, <<>>, w, "unopened", EmptyMap, Join(w.errs), TRUE)

\* ParseConfigSet of part_000 without its test of sc.Err()
ParseConfigSet_NoScanErr(path) ==
    /\ CanCall
    /\ rev = "part_000"
    /\ LET envMap == genEnvMap(environ)
           p == Expand(path, envMap)
           config == scan(fs[p].lines, EmptyMap)
           w == VisitConfig(1, getSetFlags, config, envMap, Walk0)
       IN IF path = <<>> THEN Finish("config", path, <<>>, Walk0, "unopened", EmptyMap, Nil, FALSE)
          ELSE IF p \notin DOMAIN fs
          THEN Finish("config", path, p, Walk0, "unopened", EmptyMap, Nil, TRUE)
          ELSE IF fs[p].open # "ok"
          THEN Finish("config", path, p, Walk0, "unopened", EmptyMap,
                      Errorf("open config file", p), TRUE)
          ELSE Finish("config", path, p, w, IF fs[p].readErr THEN "failed" ELSE "eof",
                      config, Join(w.errs), TRUE)

\* part_000
ParseConfigSet(path) ==
    /\ CanCall
    /\ rev = "part_000"
    /\ LET envMap == genEnvMap(environ)
           p == Expand(path, envMap)
           config == scan(fs[p].lines, EmptyMap)
           w == VisitConfig(1, getSetFlags, config, envMap, Walk0)
       IN IF path = <<>> THEN Finish("config", path, <<>>, Walk0, "unopened", EmptyMap, Nil, FALSE)
          ELSE IF p \notin DOMAIN fs
          THEN Finish("config", path, p, Walk0, "unopened", EmptyMap, Nil, TRUE)
          ELSE IF fs[p].open # "ok"
          THEN Finish("config", path, p, Walk0, "unopened", EmptyMap,
                      Errorf("open config file", p), TRUE)
          ELSE IF fs[p].readErr
          THEN Finish("config", path, p, Walk0, "failed", config, Errorf("scan config", p), TRUE)
          ELSE Finish("config", path, p, w, "eof", config, Join(w.errs), TRUE)

\* flagconf.go
ParseConfigSet0(path) ==
    /\ CanCall
    /\ rev = "flagconf.go"
    /\ LET sc == scan0(fs[path].lines, EmptyMap)
           w == VisitConfig0(1, getSetFlags, sc[2], Walk0)
       IN IF path = <<>> THEN Finish("config", path, <<>>, Walk0, "unopened", EmptyMap, Nil, FALSE)
          ELSE IF path \notin DOMAIN fs
          THEN Finish("config", path, path, Walk0, "unopened", EmptyMap, Nil, TRUE)
          ELSE IF fs[path].open # "ok"
          THEN Finish("config", path, path, Walk0, "unopened", EmptyMap,
                      Errorf("open config file", path), TRUE)
          ELSE IF sc[1] # Nil THEN Finish("config", path, path, Walk0, "left", sc[2], sc[1], TRUE)
          ELSE IF fs[path].readErr
          THEN Finish("config", path, path, Walk0, "failed", sc[2],
                      Errorf("scan config", path), TRUE)
          ELSE Finish("config", path, path, w, "eof", sc[2], Join(w.errs), TRUE)

(***************************************************************************)
(* The program's surroundings                                              *)
(***************************************************************************)
Revisions == {"part_000", "flagconf.go"}

Policies == {"ContinueOnError", "ExitOnError", "PanicOnError"}

MyApp == <<"/", "b", "i", "n", "/", "m", "y", "-", "a", "p", "p">>

\* os.Environ() of five runs.  The registry's name gives the prefix MY_APP;
\* the bare keys are read when ReadEnvPrefix returns "".
Environments ==
    { <<>>,
      <<<<"M", "Y", "_", "A", "P", "P", "_", "S", "T", "R", "=", "e", "s">>,
        <<"M", "Y", "_", "A", "P", "P", "_", "A", "R", "R", "=", "a", ",", "b", "\\", ",", "c", ",", "d">>,
        <<"A", "R", "R", "=", "o">>,
        <<"P", "=", "c">>>>,
      <<<<"M", "Y", "_", "A", "P", "P", "_", "W", "I", "L", "L", "_", "E", "R", "R", "=", "x", ",", "y">>,
        <<"M", "Y", "_", "A", "P", "P", "_", "A", "R", "R", "=", "o">>,
        <<"M", "Y", "_", "A", "P", "P", "_", "Z", "S", "=", "q">>,
        <<"W", "I", "L", "L", "_", "E", "R", "R", "=", "z">>,
        <<"Z", "S", "=", "q">>,
        <<"S", "T", "R", "=", "e", "s">>>>,
      <<<<"X", "=", "a", ",", "b">>,
        <<"Y", "=", "$", "X">>,
        <<"M", "Y", "_", "A", "P", "P", "_", "A", "R", "R", "=", "$", "X", ",", "$", "{", "Y", "}", ",", "$", "Z">>,
        <<"S", "T", "R", "=", "$", "Y">>,
        <<"M", "Y", "_", "A", "P", "P", "_", "S", "T", "R", "=">>,
        <<"P", "=", "e">>>>,
      <<<<"J", "U", "N", "K">>,
        <<"M", "Y", "_", "A", "P", "P", "_", "S", "T", "R", "=", "a">>,
        <<"M", "Y", "_", "A", "P", "P", "_", "S", "T", "R", "=", "b">>,
        <<"A", "R", "R", "=">>>> }

File(lines) == [open |-> "ok", lines |-> lines, readErr |-> FALSE]

\* a file whose read fails after the scanner has handed out lines
Failing(lines) == [open |-> "ok", lines |-> lines, readErr |-> TRUE]

NoPerm == [open |-> "permission denied", lines |-> <<>>, readErr |-> FALSE]

\* c: conf; u: an unknown key; e: setter errors; d: a directory;
\* r, k: files whose read fails; p: no permission to read
Disk ==
    (<<"c">> :> File(<<<<"s", "t", "r", " ", "t", "h", "e", " ", "s">>, <<"a", "r", "r", " ", "v", " ", "1">>, <<"#", "c">>, <<"a", "r", "r", "\t", "v", " ", "2">>, <<"u", "h">>, <<>>>>))
    @@ (<<"u">> :> File(<<<<"z", "z", " ", "h", "i">>, <<"s", "t", "r", " ", "s">>>>))
    @@ (<<"e">> :> File(<<<<"w", "i", "l", "l", "-", "e", "r", "r", " ", "x">>, <<"a", "r", "r", " ", "$", "X">>, <<"w", "i", "l", "l", "-", "e", "r", "r", " ", "y">>, <<"z", "s", " ", "q">>>>))
    @@ (<<"d">> :> Failing(<<>>))
    @@ (<<"r">> :> Failing(<<<<"s", "t", "r", " ", "s">>, <<"z", "z", " ", "h", "i">>>>))
    @@ (<<"k">> :> Failing(<<<<"a", "r", "r", " ", "v">>>>))
    @@ (<<"p">> :> NoPerm)

\* m: no such file; $P: the path is in the environment
Paths == {<<>>, <<"c">>, <<"u">>, <<"e">>, <<"d">>, <<"r">>, <<"k">>, <<"p">>, <<"m">>, <<"$", "P">>}

Start ==
    /\ actual = {}
    /\ value = ZeroValue
    /\ output = <<>>
    /\ status = "running"
    /\ ret = Nil
    /\ history = <<>>
    /\ pass = NoPass

Init ==
    /\ rev \in Revisions
    /\ flName = MyApp
    /\ emptyPrefix \in (IF rev = "part_000" THEN BOOLEAN ELSE {FALSE})
    /\ errorHandling \in Policies
    /\ hasUsage \in BOOLEAN
    /\ environ \in Environments
    /\ fs = Disk
    /\ Start
    /\ arg = <<>>
    /\ res = <<>>

Next ==
    \/ \E args \in CommandLines : FlagParse(args)
    \/ ParseEnvSet
    \/ ParseEnvSet0
    \/ \E path \in Paths : ParseConfigSet(path)
    \/ \E path \in Paths : ParseConfigSet0(path)

Spec == Init /\ [][Next]_vars

(***************************************************************************)
(* Properties                                                              *)
(***************************************************************************)
IsPass == pass.op \in {"env", "config"}

\* the setter calls the last pass made for flag f
CallsFor(f) == SelectSeq(pass.calls, LAMBDA c : c.flag = f)

\* the environment key of flag f in the linked revision, and its value
EnvKeyOf(f) ==
    IF rev = "part_000" THEN envKeyForFlag(ReadEnvPrefix(flName, emptyPrefix), f)
    ELSE envKeyForFlag0(Base(flName), f)

EnvValueOf(f) == Lookup(genEnvMap(environ), EnvKeyOf(f))

\* the path the last ParseConfigSet call gave os.Open
OpenedPath == pass.opened

\* C1: a flag the registry reports as set when a pass starts gets no setter
\* call in that pass and holds the same value after it, whatever the
\* environment and the config file carry for it.
C1_SetFlagsUntouched ==
    IsPass => \A f \in pass.setBefore : CallsFor(f) = <<>> /\ value[f] = pass.pre[f]

\* C1 witness: after flag.Parse set str, an environment pass and a config
\* pass ran, both sources carrying a value for str, and other flags were set.
C1_Witness ==
    /\ history = <<"parse", "env", "config">>
    /\ str \in pass.setBefore
    /\ EnvValueOf(str) # <<>>
    /\ Lookup(pass.config, str) # <<>>
    /\ pass.calls # <<>>

\* C2: after flag.Parse, ParseEnvSet, ParseConfigSet, a flag not given on the
\* command line whose environment key holds a non-empty value still holds the
\* value the environment pass left: the config pass made no setter call for it.
C2_EnvBeatsConfig ==
    history = <<"parse", "env", "config">> =>
        \A f \in FlagNames \ actual :
            EnvValueOf(f) # <<>> => CallsFor(f) = <<>> /\ value[f] = pass.pre[f]

(***************************************************************************)
(* The config file format as the specification words it, written without   *)
(* the package's string functions.                                         *)
(***************************************************************************)
Blank == {" ", "\t"}

\* s without its leading and trailing white space
RefTrim(s) ==
    LET inked == {i \in 1..Len(s) : s[i] \notin Space} IN
    IF inked = {} THEN <<>>
    ELSE SubSeq(s, CHOOSE i \in inked : \A j \in inked : i <= j,
                   CHOOSE i \in inked : \A j \in inked : i >= j)

\* <<key, value>> of a line, or <<>> for a line that contributes nothing
RefLine(l) ==
    LET t == RefTrim(l)
        blanks == {i \in 1..Len(t) : t[i] \in Blank}
        first == CHOOSE i \in blanks : \A j \in blanks : i <= j
        after == CHOOSE i \in first..Len(t) :
                     t[i] \notin Blank /\ \A j \in first..(i - 1) : t[j] \in Blank
    IN IF t = <<>> \/ t[1] = "#" THEN <<>>
       ELSE IF blanks = {} THEN <<t, <<"t", "r", "u", "e">>>>
       ELSE <<SubSeq(t, 1, first - 1), SubSeq(t, after, Len(t))>>

\* the values the lines give key k, in file order
RECURSIVE RefValues(_, _)
RefValues(lines, k) ==
    IF lines = <<>> THEN <<>>
    ELSE LET kv == RefLine(Head(lines)) IN
         (IF kv # <<>> /\ kv[1] = k THEN <<kv[2]>> ELSE <<>>) \o RefValues(Tail(lines), k)

RefKeys(lines) ==
    {RefLine(lines[i])[1] : i \in {j \in 1..Len(lines) : RefLine(lines[j]) # <<>>}}

\* the last call was ParseConfigSet and it read its file to the end
FileScanned ==
    /\ pass.op = "config"
    /\ pass.path # <<>>
    /\ OpenedPath \in DOMAIN fs
    /\ fs[OpenedPath].open = "ok"
    /\ ~fs[OpenedPath].readErr

ScannedLines == fs[OpenedPath].lines

AllAccepted == \A i \in 1..Len(pass.calls) : pass.calls[i].ok

\* C3: a config file with a key that is no registered flag is accepted: the
\* only error the call can end with is a setter's, nothing is reported when
\* no setter failed, and every flag not set before gets one setter call per
\* line of the file that names it.
C3_UnknownKeyAccepted ==
    (FileScanned /\ ~(RefKeys(ScannedLines) \subseteq FlagNames)) =>
        /\ pass.err.kind \in {"nil", "join"}
        /\ AllAccepted => pass.err = Nil /\ pass.report = <<>> /\ ret = Nil
        /\ \A f \in FlagNames \ pass.setBefore :
               Len(CallsFor(f)) = Len(RefValues(ScannedLines, f))

\* C4: ParseConfigSet calls a setter only when the file was opened and read
\* to its end.  An empty path and a file that does not exist end in success,
\* a file that does not open in an "open config file" error, a read that
\* fails in a "scan config" error; in all four no setter is called and every
\* flag keeps its value, also when lines were read before the failure.
C4_NoSetterBeforeScanEnd ==
    pass.op = "config" =>
        LET quiet == pass.calls = <<>> /\ value = pass.pre
            found == pass.path # <<>> /\ OpenedPath \in DOMAIN fs
        IN /\ ~found => quiet /\ pass.err = Nil /\ ret = Nil /\ pass.report = <<>>
           /\ (found /\ fs[OpenedPath].open # "ok") =>
                  quiet /\ pass.err.kind = "open config file"
           /\ (found /\ fs[OpenedPath].open = "ok" /\ fs[OpenedPath].readErr
                     /\ pass.sc # "left") =>
                  quiet /\ pass.err.kind = "scan config"
           /\ pass.calls # <<>> => FileScanned

\* C4 witness: a read failed after lines that carry values for registered
\* flags had been read, and the call ended in the scan error.
C4_Witness ==
    /\ pass.op = "config"
    /\ pass.path # <<>>
    /\ OpenedPath \in DOMAIN fs
    /\ fs[OpenedPath].readErr
    /\ \E f \in FlagNames \ pass.setBefore : RefValues(fs[OpenedPath].lines, f) # <<>>
    /\ pass.err.kind = "scan config"
    /\ pass.calls = <<>>

\* the errors of the setter calls that failed, in the order of the calls
FailedCalls ==
    LET failed == SelectSeq(pass.calls, LAMBDA c : ~c.ok) IN
    [i \in 1..Len(failed) |-> SetError(failed[i].flag, failed[i].val)]

\* C5: a pass that ends with an error reports it once: the error is written
\* to the output, then usage runs if there is one, then the policy is
\* enacted (ContinueOnError returns the error, ExitOnError exits with 2,
\* PanicOnError panics).  A pass that ends without error writes nothing,
\* runs no usage and returns nil.
C5_ReportOnce ==
    IsPass =>
        LET n == Len(pass.report)
            at(x) == {i \in 1..n : pass.report[i] = x}
        IN IF pass.err = Nil
           THEN pass.report = <<>> /\ output = pass.out /\ ret = Nil /\ status = "running"
           ELSE /\ at("write") = {1}
                /\ output = Append(pass.out, pass.err)
                /\ at("usage") = (IF hasUsage THEN {2} ELSE {})
                /\ errorHandling = "ContinueOnError" =>
                       at("exit(2)") = {} /\ at("panic") = {}
                       /\ ret = pass.err /\ status = "running"
                /\ errorHandling = "ExitOnError" =>
                       at("exit(2)") = {n} /\ at("panic") = {} /\ status = "exited2"
                /\ errorHandling = "PanicOnError" =>
                       at("panic") = {n} /\ at("exit(2)") = {} /\ status = "panicked"

\* C5 witness: a config pass ended with setter errors under ExitOnError with
\* a usage function, after an earlier pass had ended without error.
C5_Witness ==
    /\ pass.op = "config"
    /\ pass.err.kind = "join"
    /\ hasUsage
    /\ errorHandling = "ExitOnError"
    /\ Len(history) > 1
    /\ status = "exited2"

\* the number of tokens of a raw environment value: one more than its commas
\* that no backslash precedes, none for the empty value
RefTokenCount(raw) ==
    IF raw = <<>> THEN 0
    ELSE 1 + Cardinality({i \in 1..Len(raw) :
                             raw[i] = "," /\ (i = 1 \/ raw[i - 1] # "\\")})

\* the last pass walked the flags
Walked == pass.op = "env" \/ (FileScanned /\ pass.err.kind \in {"nil", "join"})

\* the values of the calls made for f
ValuesFor(f) == [i \in 1..Len(CallsFor(f)) |-> CallsFor(f)[i].val]

\* C6: a setter failure does not stop a pass.  Every flag not set before gets
\* one setter call per value its source holds for it, failed calls or not,
\* and the flags whose setter accepts end as if no call had failed; the error
\* of the pass is non-nil exactly when a call failed and holds the errors of
\* the failed calls, one each, in the order of the calls.
C6_FailuresCollected ==
    Walked =>
        /\ \A f \in FlagNames \ pass.setBefore :
               /\ Len(CallsFor(f)) = IF pass.op = "env" THEN RefTokenCount(EnvValueOf(f))
                                     ELSE Len(Lookup(pass.config, f))
               /\ IsArray(f) => value[f] = pass.pre[f] \o ValuesFor(f)
               /\ (f = str /\ CallsFor(f) # <<>>) => value[f] = ValuesFor(f)[Len(ValuesFor(f))]
        /\ pass.err # Nil <=> ~AllAccepted
        /\ pass.err.errs = FailedCalls

\* C6 witness: will-err rejected two values, the flag visited after it was
\* still set, and the error holds the two failures.
C6_Witness ==
    /\ Walked
    /\ Len(CallsFor(willErr)) = 2
    /\ CallsFor(zs) # <<>>
    /\ value[zs] # pass.pre[zs]
    /\ Len(pass.err.errs) = 2
    /\ pass.err.errs[1] # pass.err.errs[2]

(***************************************************************************)
(* ParseConfigSet on every short file: one line of up to MaxLineLen        *)
(* characters, alone, before or after a line that sets zs.                 *)
(***************************************************************************)
MaxLineLen == 4

Strings(alphabet, n) == UNION {[1..k -> alphabet] : k \in 0..n}

LineAlphabet == {"z", "s", " ", "\t", "#"}

ConfPath == <<"c">>

InitScan ==
    /\ rev \in Revisions
    /\ flName = MyApp
    /\ emptyPrefix = FALSE
    /\ errorHandling = "ContinueOnError"
    /\ hasUsage = FALSE
    /\ environ = <<>>
    /\ \E l \in Strings(LineAlphabet, MaxLineLen) :
           \E lines \in {<<l>>, <<l, <<"z", "s", " ", "v">>>>, <<<<"z", "s", "\t", "v", " ", "w">>, l>>} :
               fs = (ConfPath :> File(lines))
    /\ Start
    /\ arg = <<>>
    /\ res = <<>>

NextScan == ParseConfigSet(ConfPath) \/ ParseConfigSet0(ConfPath)

SpecScan == InitScan /\ [][NextScan]_vars

\* C7: the table ParseConfigSet builds holds, for every key, the values the
\* lines of the file give it under the format's reading (trimmed; empty and
\* "#" lines skipped; split at the first run of spaces and tabs; "true" for a
\* line without one), in file order; the setter of each flag not set before
\* receives the values of its key, in that order.
C7_ConfigTable ==
    pass.op = "config" =>
        /\ \A k \in RefKeys(ScannedLines) \cup DOMAIN pass.config :
               Lookup(pass.config, k) = RefValues(ScannedLines, k)
        /\ \A f \in FlagNames \ pass.setBefore : ValuesFor(f) = RefValues(ScannedLines, f)

(***************************************************************************)
(* The environment key on its own: the key ParseEnvSet computes for a flag *)
(* named arg.option in a registry named arg.name.                          *)
(***************************************************************************)
MaxNameLen == 3

NoKey == [prefix |-> <<>>, key |-> <<>>]

Apart(op) ==
    /\ history = <<>>
    /\ history' = <<op>>
    /\ UNCHANGED <<arg, actual, value, output, status, ret, pass>>
    /\ Registry

InitApart ==
    /\ flName = <<>>
    /\ errorHandling = "ContinueOnError"
    /\ hasUsage = FALSE
    /\ environ = <<>>
    /\ fs = Disk
    /\ Start

InitKey ==
    /\ rev \in Revisions
    /\ emptyPrefix \in (IF rev = "part_000" THEN BOOLEAN ELSE {FALSE})
    /\ arg \in ([name : Strings({"a", "-", "B", "/"}, MaxNameLen),
                 option : Strings({"a", "-", "B"}, MaxNameLen) \ {<<>>}]
                \cup {[name |-> <<"m", "y", "-", "a", "p", "p">>, option |-> <<"s", "o", "m", "e", "-", "s", "t", "r", "i", "n", "g">>]})
    /\ res = NoKey
    /\ InitApart

\* part_000: prefix := ReadEnvPrefix(fl); key := envKeyForFlag(prefix, f.Name)
EnvKey ==
    /\ rev = "part_000"
    /\ LET prefix == ReadEnvPrefix(arg.name, emptyPrefix) IN
       res' = [prefix |-> prefix, key |-> envKeyForFlag(prefix, arg.option)]
    /\ Apart("key")

\* flagconf.go: prefix := filepath.Base(fl.Name()); envKeyForFlag(prefix, f.Name)
EnvKey0 ==
    /\ rev = "flagconf.go"
    /\ LET prefix == Base(arg.name) IN
       res' = [prefix |-> prefix, key |-> envKeyForFlag0(prefix, arg.option)]
    /\ Apart("key")

NextKey == EnvKey \/ EnvKey0

SpecKey == InitKey /\ [][NextKey]_vars

\* a name in upper case with "_" for "-", character by character
RefSnake(s) ==
    [i \in 1..Len(s) |->
        IF s[i] = "-" THEN "_"
        ELSE IF \E j \in 1..26 : Lower[j] = s[i]
        THEN Upper[CHOOSE j \in 1..26 : Lower[j] = s[i]]
        ELSE s[i]]

RefEnvKey(prefix, name) ==
    IF prefix = <<>> THEN RefSnake(name)
    ELSE RefSnake(prefix) \o <<"_">> \o RefSnake(name)

\* C8: the environment key ParseEnvSet looks up for a flag is the prefix and
\* the flag's name, each in upper case with "_" for "-", joined by "_"; with
\* an empty prefix it is the name alone, without a leading "_".
C8_EnvKey ==
    /\ history = <<"key">> => res.key = RefEnvKey(res.prefix, arg.option)
    /\ \A i \in 1..Len(pass.lookups) :
           pass.lookups[i].key = RefEnvKey(pass.lookups[i].prefix, pass.lookups[i].flag)

\* C8 witness: the key of an option with a "-" in its name, under an empty
\* prefix, has been computed.
C8_Witness ==
    /\ history = <<"key">>
    /\ res.prefix = <<>>
    /\ \E i \in 1..Len(arg.option) : arg.option[i] = "-"
    /\ res.key # <<>>

\* C8 witness of the example: my-app and some-string give MY_APP_SOME_STRING
C8_Example ==
    /\ history = <<"key">>
    /\ arg = [name |-> <<"m", "y", "-", "a", "p", "p">>, option |-> <<"s", "o", "m", "e", "-", "s", "t", "r", "i", "n", "g">>]
    /\ res.key = <<"M", "Y", "_", "A", "P", "P", "_", "S", "O", "M", "E", "_", "S", "T", "R", "I", "N", "G">>

(***************************************************************************)
(* splitEscape on its own, on every string of up to MaxSplitLen characters *)
(* over a letter, the separator, the escape and the byte 0.  flagconf.go   *)
(* calls it for non-empty values only.                                     *)
(***************************************************************************)
MaxSplitLen == 4

InitSplit ==
    /\ rev \in Revisions
    /\ emptyPrefix = FALSE
    /\ arg \in Strings({"a", ",", "\\", NUL}, MaxSplitLen)
    /\ rev = "flagconf.go" => arg # <<>>
    /\ res = <<>>
    /\ InitApart

\* part_000: splitEscape(envMap[key], ",", `\`)
SplitEscape ==
    /\ rev = "part_000"
    /\ res' = splitEscape(arg, ",", "\\")
    /\ Apart("split")

\* flagconf.go: splitEscape(vs, ",", `\`)
SplitEscape0 ==
    /\ rev = "flagconf.go"
    /\ res' = splitEscape0(arg, ",", "\\")
    /\ Apart("split")

NextSplit == SplitEscape \/ SplitEscape0

SpecSplit == InitSplit /\ [][NextSplit]_vars

\* the tokens of s: cut at each comma that no backslash precedes; a backslash
\* and the comma after it stand for a comma; cur is the token being read
RECURSIVE RefSplitFrom(_, _)
RefSplitFrom(s, cur) ==
    IF s = <<>> THEN <<cur>>
    ELSE IF Len(s) >= 2 /\ s[1] = "\\" /\ s[2] = ","
    THEN RefSplitFrom(Drop(s, 2), Append(cur, ","))
    ELSE IF s[1] = "," THEN <<cur>> \o RefSplitFrom(Tail(s), <<>>)
    ELSE RefSplitFrom(Tail(s), Append(cur, s[1]))

RefSplit(s) == IF s = <<>> THEN <<>> ELSE RefSplitFrom(s, <<>>)

\* C9: splitEscape(s, ",", "\") gives, for every string s, the tokens between
\* the commas that no backslash precedes, in order, with "\," read as a comma
\* and every other character left as it is; the empty string gives no token.
C9_SplitEscape == history = <<"split">> => res = RefSplit(arg)

\* $NAME and ${NAME} in s replaced by envMap's value for NAME, the empty
\* string for a name it does not hold; the text put in is not read again
RefNameChar(c) == c = "_" \/ c \in Digits \/ \E j \in 1..26 : c = Lower[j] \/ c = Upper[j]

RECURSIVE RefExpand(_, _)
RefExpand(s, envMap) ==
    LET close == CHOOSE i \in 3..(Len(s) + 1) :
                     (i = Len(s) + 1 \/ s[i] = "}") /\ \A j \in 3..(i - 1) : s[j] # "}"
        stop == CHOOSE i \in 2..(Len(s) + 1) :
                    (i = Len(s) + 1 \/ ~RefNameChar(s[i])) /\ \A j \in 2..(i - 1) : RefNameChar(s[j])
    IN IF s = <<>> THEN <<>>
       ELSE IF s[1] = "$" /\ Len(s) >= 4 /\ s[2] = "{" /\ close > 3 /\ close <= Len(s)
       THEN Lookup(envMap, SubSeq(s, 3, close - 1)) \o RefExpand(Drop(s, close), envMap)
       ELSE IF s[1] = "$" /\ Len(s) >= 2 /\ stop > 2
       THEN Lookup(envMap, SubSeq(s, 2, stop - 1)) \o RefExpand(Drop(s, stop - 1), envMap)
       ELSE <<s[1]>> \o RefExpand(Tail(s), envMap)

RefExpandAll(ss, envMap) == [i \in 1..Len(ss) |-> RefExpand(ss[i], envMap)]

\* C10: ParseEnvSet splits the raw value and then expands each token once:
\* the setter gets one call per token of the raw value, each with the token's
\* references replaced from the environment, whatever the values put in
\* hold.  The values of the config file and the config path are expanded the
\* same way, once.
C10_SplitThenExpandOnce ==
    LET envMap == genEnvMap(environ) IN
    /\ pass.op = "env" =>
           \A f \in FlagNames \ pass.setBefore :
               ValuesFor(f) = RefExpandAll(RefSplit(EnvValueOf(f)), envMap)
    /\ (pass.op = "config" /\ pass.path # <<>>) =>
           pass.opened = RefExpand(pass.path, envMap)
    /\ (pass.op = "config" /\ Walked) =>
           \A f \in FlagNames \ pass.setBefore :
               ValuesFor(f) = RefExpandAll(Lookup(pass.config, f), envMap)

(***************************************************************************)
(* The flags a pass has no value for                                       *)
(***************************************************************************)
\* the environment has an entry KEY= for the key of f, or none at all
EnvEntries(f) ==
    {i \in 1..Len(environ) : HasPrefix(environ[i], EnvKeyOf(f) \o <<"=">>)}

\* the file the last ParseConfigSet opened has a line that names f
HasLine(f) ==
    /\ pass.op = "config"
    /\ pass.path # <<>>
    /\ OpenedPath \in DOMAIN fs
    /\ fs[OpenedPath].open = "ok"
    /\ f \in RefKeys(fs[OpenedPath].lines)

\* the last pass has no value for f
NoValueFor(f) ==
    \/ pass.op = "env" /\ EnvValueOf(f) = <<>>
    \/ pass.op = "config" /\ ~HasLine(f)

\* C11: a pass leaves alone every flag its source has no value for.  In
\* ParseEnvSet a flag whose environment key is absent, or present with the
\* empty string, gets no setter call (the empty string is not assigned) and
\* keeps its value; in ParseConfigSet a flag no line of the file names gets
\* no setter call and keeps its value.
C11_NoValueNoCall ==
    IsPass => \A f \in FlagNames :
                  NoValueFor(f) => CallsFor(f) = <<>> /\ value[f] = pass.pre[f]

\* C11 witness: str got a value from the config file; the environment pass
\* after it finds the key of str present with the empty string, sets another
\* flag, and str still holds the value of the file.
C11_Witness ==
    /\ history = <<"config", "env">>
    /\ EnvEntries(str) # {}
    /\ EnvValueOf(str) = <<>>
    /\ pass.pre[str] # <<>>
    /\ value[str] = pass.pre[str]
    /\ CallsFor(arr) # <<>>
    /\ str \notin pass.setBefore

\* an environment pass with the key of a flag absent, the flag holding a value
C11_WitnessAbsent ==
    /\ pass.op = "env"
    /\ \E f \in FlagNames \ pass.setBefore :
           EnvEntries(f) = {} /\ pass.pre[f] # <<>> /\ value[f] = pass.pre[f]
    /\ pass.calls # <<>>

\* a config pass over a file with no line for a flag that holds a value from
\* the environment, other flags being set from the file
C11_WitnessConfig ==
    /\ history = <<"env", "config">>
    /\ FileScanned
    /\ \E f \in FlagNames \ pass.setBefore :
           ~HasLine(f) /\ pass.pre[f] # <<>> /\ value[f] = pass.pre[f]
    /\ pass.calls # <<>>

====
